---- MODULE Spec2Model ----
(***************************************************************************)
(* Model of zipline/messaging.py: the ComponentHost sync loop, the Feed    *)
(* (ParallelBuffer), the Merge (MergedParallelBuffer), the transforms and  *)
(* the data sources that drive them.                                       *)
(***************************************************************************)
EXTENDS Integers, Sequences, FiniteSets, TLC

(* ------------------------------ bounds -------------------------------- *)
\* how many data sources / user transforms may be registered
MaxSources == 2
MaxTransforms == 1
\* how many events one source emits at most, and the largest timestamp
MaxEvents == 2
MaxDt == 2
\* the clock stops here, in seconds
MaxTime == 8

(* ------------------------- program constants -------------------------- *)
\* ComponentHost.timeout, in seconds
Timeout == 5
\* ComponentHost.heartbeat_timeout (2000 ms), in seconds
HeartbeatTimeout == 2

SourceNames == <<"A", "B", "C", "D">>
TransformNames == <<"X", "Y", "Z">>
SourceIds == {SourceNames[i] : i \in 1..MaxSources}
TransformIds == {TransformNames[i] : i \in 1..MaxTransforms}

VARIABLES
    now,            \* datetime.utcnow(), in seconds
    launched,       \* ComponentHost.open() has launched the components
    components,     \* key set of ComponentHost.components
    sync_register,  \* ComponentHost.sync_register: id -> last_seen
    feed,           \* the ParallelBuffer object (FEED)
    sources,        \* per data source: events pushed, last dt, DONE pushed
    host,           \* ComponentHost.loop: where it is, its poll, its REP socket
    merge,          \* the MergedParallelBuffer object (MERGE)
    transforms,     \* per transform: feed messages read, results sent, state
    merge_pull,     \* per transform: its frames in flight to the Merge
    acked           \* the ids whose DONE frame the host has acknowledged

vars == <<now, launched, components, sync_register, feed, sources, host,
          merge, transforms, merge_pull, acked>>

(* ------------------------------ frames -------------------------------- *)
\* str(CONTROL_PROTOCOL.DONE) on a data socket
DONE == [kind |-> "DONE"]

\* zp.FEED_FRAME / zp.FEED_UNFRAME
FEED_FRAME(event) == [kind |-> "FEED", payload |-> event]
FEED_UNFRAME(msg) == msg.payload

\* zp.DATASOURCE_FRAME / zp.DATASOURCE_UNFRAME
DATASOURCE_FRAME(event) == [kind |-> "DATASOURCE", payload |-> event]
DATASOURCE_UNFRAME(msg) == msg.payload

\* zp.TRANSFORM_FRAME / zp.TRANSFORM_UNFRAME: a namedict with the one entry
\* name: value
TRANSFORM_FRAME(name, value) ==
    [kind |-> "TRANSFORM", payload |-> [name |-> name, value |-> value]]
TRANSFORM_UNFRAME(msg) == msg.payload

\* zp.MERGE_FRAME
MERGE_FRAME(event) == [kind |-> "MERGE", payload |-> event]

(* --------------------------- ParallelBuffer --------------------------- *)
\* ParallelBuffer.__init__; order is the iteration order of the dict
ParallelBufferInit ==
    [get_id |-> "FEED", data_buffer |-> <<>>, order |-> <<>>, sent_count |-> 0,
     received_count |-> 0, draining |-> FALSE, ds_finished_counter |-> 0,
     socket |-> <<>>, done |-> FALSE, error |-> "none"]

\* the positions at which a new key may land in the dict's iteration order
InsertAt(seq, i, x) ==
    SubSeq(seq, 1, i - 1) \o <<x>> \o SubSeq(seq, i, Len(seq))

\* ParallelBuffer.add_source: data_buffer[source_id] = []
add_source(self, source_id, pos) ==
    [self EXCEPT
        !.data_buffer = (source_id :> <<>>) @@ @,
        !.order = IF source_id \in DOMAIN self.data_buffer
                  THEN @ ELSE InsertAt(@, pos, source_id)]

\* is_full() with "any" in place of "all"
is_full_any(self) ==
    \E s \in DOMAIN self.data_buffer : Len(self.data_buffer[s]) # 0

\* ParallelBuffer.is_full
is_full(self) ==
    \A s \in DOMAIN self.data_buffer : Len(self.data_buffer[s]) # 0

RECURSIVE SumLen(_, _)
SumLen(buf, keys) ==
    IF keys = {} THEN 0
    ELSE LET k == CHOOSE x \in keys : TRUE
         IN Len(buf[k]) + SumLen(buf, keys \ {k})

\* ParallelBuffer.pending_messages
pending_messages(self) == SumLen(self.data_buffer, DOMAIN self.data_buffer)

\* append() that puts the event at the front of its queue
append_front(self, event) ==
    [self EXCEPT
        !.data_buffer[event.source_id] = <<event>> \o @,
        !.received_count = @ + 1]

\* ParallelBuffer.append
append(self, event) ==
    [self EXCEPT
        !.data_buffer[event.source_id] = Append(@, event),
        !.received_count = @ + 1]

\* append() of the Merge that puts the result at the front of its queue
merged_append_front(self, event) ==
    [self EXCEPT
        !.data_buffer[event.name] = <<event>> \o @,
        !.received_count = @ + 1]

\* MergedParallelBuffer.append: the key is the result's one name
merged_append(self, event) ==
    [self EXCEPT
        !.data_buffer[event.name] = Append(@, event),
        !.received_count = @ + 1]

\* the comparison of next() with "<" in place of "<=": the tied queue
\* visited first keeps the pop
FirstTiedHead(buf, order, i, earliest) ==
    IF Len(buf[order[i]]) = 0 THEN earliest
    ELSE IF earliest = "" \/ buf[order[i]][1].dt < buf[earliest][1].dt
         THEN order[i] ELSE earliest

\* a plausible slip in the comparison of next(): keeps the latest head
LatestHead(buf, order, i, earliest) ==
    IF Len(buf[order[i]]) = 0 THEN earliest
    ELSE IF earliest = "" \/ buf[order[i]][1].dt >= buf[earliest][1].dt
         THEN order[i] ELSE earliest

\* one round of the loop of next(): "" stands for None
EarlierHead(buf, order, i, earliest) ==
    IF Len(buf[order[i]]) = 0 THEN earliest
    ELSE IF earliest = "" \/ buf[order[i]][1].dt <= buf[earliest][1].dt
         THEN order[i] ELSE earliest

RECURSIVE Earliest(_, _, _, _)
Earliest(buf, order, i, earliest) ==
    IF i > Len(order) THEN earliest
    ELSE Earliest(buf, order, i + 1, EarlierHead(buf, order, i, earliest))

\* ParallelBuffer.next: [event, self]; found = FALSE stands for None
next(self) ==
    IF ~(is_full(self) \/ self.draining)
    THEN [found |-> FALSE, self |-> self]
    ELSE LET e == Earliest(self.data_buffer, self.order, 1, "")
         IN IF e = "" THEN [found |-> FALSE, self |-> self]
            ELSE [found |-> TRUE,
                  event |-> Head(self.data_buffer[e]),
                  self |-> [self EXCEPT !.data_buffer[e] = Tail(@)]]

\* the transform queues other than PASSTHROUGH that hold a result
Available(self) ==
    {s \in (DOMAIN self.data_buffer) \ {"PASSTHROUGH"} :
        Len(self.data_buffer[s]) > 0}

\* next() of the Merge without the "continue" that skips PASSTHROUGH in the
\* loop: a second PASSTHROUGH element is popped and merged into the first
merged_next_no_skip(self) ==
    IF ~(is_full(self) \/ self.draining)
    THEN [found |-> FALSE, self |-> self]
    ELSE IF Len(self.data_buffer["PASSTHROUGH"]) = 0
    THEN [found |-> FALSE, self |-> [self EXCEPT !.error = "IndexError"]]
    ELSE LET popped == [self EXCEPT !.data_buffer["PASSTHROUGH"] = Tail(@)]
             avail == {s \in DOMAIN popped.data_buffer :
                          Len(popped.data_buffer[s]) > 0}
         IN [found |-> TRUE,
             event |-> [base |-> Head(self.data_buffer["PASSTHROUGH"]).value,
                        merged |-> {Head(popped.data_buffer[s]) : s \in avail}],
             self |-> [popped EXCEPT !.data_buffer =
                          [s \in DOMAIN @ |->
                              IF s \in avail THEN Tail(@[s]) ELSE @[s]]]]

\* MergedParallelBuffer.next: the PASSTHROUGH head is the base record, the
\* head of every other non-empty queue is merged into it; pop(0) of an empty
\* PASSTHROUGH queue raises IndexError
merged_next(self) ==
    IF ~(is_full(self) \/ self.draining)
    THEN [found |-> FALSE, self |-> self]
    ELSE IF Len(self.data_buffer["PASSTHROUGH"]) = 0
    THEN [found |-> FALSE, self |-> [self EXCEPT !.error = "IndexError"]]
    ELSE [found |-> TRUE,
          event |-> [base |-> Head(self.data_buffer["PASSTHROUGH"]).value,
                     merged |-> {Head(self.data_buffer[s]) : s \in Available(self)}],
          self |-> [self EXCEPT !.data_buffer =
                       [s \in DOMAIN @ |->
                           IF s = "PASSTHROUGH" \/ s \in Available(self)
                           THEN Tail(@[s]) ELSE @[s]]]]

\* self.next(), self.append(), self.frame(), self.unframe() of either class
self_next(self) ==
    IF self.get_id = "MERGE" THEN merged_next(self) ELSE next(self)
self_append(self, event) ==
    IF self.get_id = "MERGE" THEN merged_append(self, event)
    ELSE append(self, event)
frame(self, event) ==
    IF self.get_id = "MERGE" THEN MERGE_FRAME(event) ELSE FEED_FRAME(event)
unframe(self, msg) ==
    IF self.get_id = "MERGE" THEN TRANSFORM_UNFRAME(msg)
    ELSE DATASOURCE_UNFRAME(msg)

\* send_next() that keeps sending for as long as next() returns an event
RECURSIVE send_next_while_full(_)
send_next_while_full(self) ==
    IF ~(is_full(self) \/ self.draining) THEN self
    ELSE LET r == self_next(self)
         IN IF r.found
            THEN send_next_while_full(
                    [r.self EXCEPT !.socket = Append(@, frame(self, r.event)),
                                   !.sent_count = @ + 1])
            ELSE r.self

\* ParallelBuffer.send_next
send_next(self) ==
    IF ~(is_full(self) \/ self.draining) THEN self
    ELSE LET r == self_next(self)
         IN IF r.found
            THEN [r.self EXCEPT !.socket = Append(@, frame(self, r.event)),
                                !.sent_count = @ + 1]
            ELSE r.self

\* drain() with "if" in place of "while"
drain_once(self) ==
    LET d == [self EXCEPT !.draining = TRUE]
    IN IF pending_messages(d) > 0 THEN send_next(d) ELSE d

RECURSIVE drain_loop(_)
drain_loop(self) ==
    IF self.error = "none" /\ pending_messages(self) > 0
    THEN drain_loop(send_next(self)) ELSE self

\* ParallelBuffer.drain
drain(self) == drain_loop([self EXCEPT !.draining = TRUE])

\* Component.signal_done: DONE to the downstream socket, the component stops;
\* an exception raised before it leaves do_work() without it
signal_done(self) ==
    IF self.error # "none" THEN self
    ELSE [self EXCEPT !.socket = Append(@, DONE), !.done = TRUE]

\* ParallelBuffer.do_work, the pull socket delivering message
do_work(self, message) ==
    IF message = DONE
    THEN LET c == [self EXCEPT !.ds_finished_counter = @ + 1]
         IN IF Cardinality(DOMAIN c.data_buffer) = c.ds_finished_counter
            THEN signal_done(drain(c))
            ELSE c
    ELSE send_next(self_append(self, unframe(self, message)))

\* MergedParallelBuffer.__init__, then add_source("PASSTHROUGH") by the
\* host's registration of its PassthroughTransform
MergedParallelBufferInit ==
    [ParallelBufferInit EXCEPT
        !.get_id = "MERGE",
        !.data_buffer = ("PASSTHROUGH" :> <<>>),
        !.order = <<"PASSTHROUGH">>]

(* ---------------------------- ComponentHost --------------------------- *)
\* ComponentHost.__init__: FEED, MERGE and PASSTHROUGH are registered
Init ==
    /\ now = 0
    /\ launched = FALSE
    /\ components = {"FEED", "MERGE", "PASSTHROUGH"}
    /\ sync_register = [c \in {"FEED", "MERGE", "PASSTHROUGH"} |-> 0]
    /\ feed = ParallelBufferInit
    /\ sources = [s \in SourceIds |-> [sent |-> 0, last |-> 1, done |-> FALSE]]
    /\ host = [pc |-> "init", poll_start |-> 0, awaiting_reply |-> FALSE]
    /\ merge = MergedParallelBufferInit
    /\ transforms = [t \in TransformIds \cup {"PASSTHROUGH"} |->
                        [pos |-> 0, sent |-> 0, done |-> FALSE,
                         error |-> "none", poll_start |-> 0]]
    /\ merge_pull = [t \in TransformIds \cup {"PASSTHROUGH"} |-> <<>>]
    /\ acked = {}

\* ComponentHost.register_components([DataSource(s)])
RegisterSource(s) ==
    /\ ~launched
    /\ components' = components \cup {s}
    /\ sync_register' = (s :> now) @@ sync_register
    /\ \E pos \in 1..(Len(feed.order) + 1) : feed' = add_source(feed, s, pos)
    /\ UNCHANGED <<now, launched, sources, host, merge, transforms, merge_pull, acked>>

\* ComponentHost.open
Open ==
    /\ ~launched
    /\ launched' = TRUE
    /\ UNCHANGED <<now, components, sync_register, feed, sources, host,
                   merge, transforms, merge_pull, acked>>

(* ------------------------------ DataSource ---------------------------- *)
\* the next message of source s: an event with a dt not below its last one,
\* or DONE
SourceMessages(s) ==
    IF sources[s].done THEN {}
    ELSE {DONE} \cup
         (IF sources[s].sent < MaxEvents
          THEN {DATASOURCE_FRAME([source_id |-> s, dt |-> d,
                                  seq |-> sources[s].sent + 1]) :
                    d \in sources[s].last..MaxDt}
          ELSE {})

SourceAfter(s, message) ==
    IF message = DONE
    THEN [sources EXCEPT ![s].done = TRUE]
    ELSE [sources EXCEPT ![s].sent = @ + 1, ![s].last = message.payload.dt]

\* one do_work step of the Feed whose poll returns the next message of s
FeedDoWork(s) ==
    /\ launched
    /\ ~feed.done
    /\ s \in DOMAIN feed.data_buffer
    /\ \E message \in SourceMessages(s) :
          /\ feed' = do_work(feed, message)
          /\ sources' = SourceAfter(s, message)
    /\ UNCHANGED <<now, launched, components, sync_register, host,
                   merge, transforms, merge_pull, acked>>

\* one do_work step of the Feed whose poll times out
FeedPollTimeout ==
    /\ launched
    /\ ~feed.done
    /\ UNCHANGED vars

NextFeed ==
    \/ \E s \in SourceIds : RegisterSource(s)
    \/ Open
    \/ \E s \in SourceIds : FeedDoWork(s)
    \/ FeedPollTimeout

SpecFeed == Init /\ [][NextFeed]_vars

(* ----------------------------- transforms ----------------------------- *)
\* ComponentHost.register_components([BaseTransform(t)])
RegisterTransform(t) ==
    /\ ~launched
    /\ components' = components \cup {t}
    /\ sync_register' = (t :> now) @@ sync_register
    /\ \E pos \in 1..(Len(merge.order) + 1) : merge' = add_source(merge, t, pos)
    /\ UNCHANGED <<now, launched, feed, sources, host, transforms, merge_pull,
                   acked>>

\* the transforms that are registered with the host
Registered == DOMAIN merge.data_buffer

\* the feed socket of transform t has a message to deliver
FeedReadable(t) == transforms[t].pos < Len(feed.socket)
FeedMessage(t) == feed.socket[transforms[t].pos + 1]

\* BaseTransform.transform of a user transform: the derived value names the
\* event it was computed from
transform(t, event) == [name |-> t, value |-> event]

\* BaseTransform.do_work, the poll returning a feed message
TransformDoWork(t) ==
    /\ launched
    /\ t \in Registered \ {"PASSTHROUGH"}
    /\ ~transforms[t].done
    /\ FeedReadable(t)
    /\ LET message == FeedMessage(t)
       IN IF message = DONE
          THEN /\ transforms' = [transforms EXCEPT ![t].pos = @ + 1,
                                                   ![t].done = TRUE]
               /\ merge_pull' = [merge_pull EXCEPT ![t] = Append(@, DONE)]
          ELSE LET cur_state == transform(t, FEED_UNFRAME(message))
               IN /\ transforms' = [transforms EXCEPT ![t].pos = @ + 1,
                                                      ![t].sent = @ + 1,
                                                      ![t].poll_start = now]
                  /\ merge_pull' = [merge_pull EXCEPT ![t] =
                        Append(@, TRANSFORM_FRAME(cur_state.name, cur_state.value))]
    /\ UNCHANGED <<now, launched, components, sync_register, feed, sources,
                   host, merge, acked>>

\* BaseTransform.do_work, the poll timing out
TransformPollTimeout(t) ==
    /\ launched
    /\ t \in Registered \ {"PASSTHROUGH"}
    /\ ~transforms[t].done
    /\ ~FeedReadable(t)
    /\ UNCHANGED vars

\* PassthroughTransform.do_work, the poll returning a feed message
PassthroughDoWork ==
    /\ launched
    /\ ~transforms["PASSTHROUGH"].done
    /\ transforms["PASSTHROUGH"].error = "none"
    /\ FeedReadable("PASSTHROUGH")
    /\ LET message == FeedMessage("PASSTHROUGH")
       IN IF message = DONE
          THEN /\ transforms' = [transforms EXCEPT !["PASSTHROUGH"].pos = @ + 1,
                                                   !["PASSTHROUGH"].done = TRUE]
               /\ merge_pull' = [merge_pull EXCEPT !["PASSTHROUGH"] = Append(@, DONE)]
          ELSE /\ transforms' = [transforms EXCEPT
                                    !["PASSTHROUGH"].pos = @ + 1,
                                    !["PASSTHROUGH"].sent = @ + 1,
                                    !["PASSTHROUGH"].poll_start = now]
               /\ merge_pull' = [merge_pull EXCEPT !["PASSTHROUGH"] =
                     Append(@, TRANSFORM_FRAME("PASSTHROUGH", message))]
    /\ UNCHANGED <<now, launched, components, sync_register, feed, sources,
                   host, merge, acked>>

\* PassthroughTransform.do_work, the poll timing out: the send after the
\* "if" reads message, which was never bound
PassthroughPollTimeout ==
    /\ launched
    /\ ~transforms["PASSTHROUGH"].done
    /\ transforms["PASSTHROUGH"].error = "none"
    /\ ~FeedReadable("PASSTHROUGH")
    /\ transforms' = [transforms EXCEPT
                         !["PASSTHROUGH"].error = "UnboundLocalError"]
    /\ UNCHANGED <<now, launched, components, sync_register, feed, sources,
                   host, merge, merge_pull, acked>>

(* -------------------------------- Merge ------------------------------- *)
\* one do_work step of the Merge whose poll returns the next frame of t
MergeDoWork(t) ==
    /\ launched
    /\ ~merge.done
    /\ merge.error = "none"
    /\ merge_pull[t] # <<>>
    /\ merge' = do_work(merge, Head(merge_pull[t]))
    /\ merge_pull' = [merge_pull EXCEPT ![t] = Tail(@)]
    /\ UNCHANGED <<now, launched, components, sync_register, feed, sources,
                   host, transforms, acked>>

\* one do_work step of the Merge whose poll times out
MergePollTimeout ==
    /\ launched
    /\ ~merge.done
    /\ merge.error = "none"
    /\ \A t \in DOMAIN merge_pull : merge_pull[t] = <<>>
    /\ UNCHANGED vars

NextMerge ==
    \/ RegisterSource(SourceNames[1])
    \/ \E t \in TransformIds : RegisterTransform(t)
    \/ Open
    \/ FeedDoWork(SourceNames[1])
    \/ FeedPollTimeout
    \/ \E t \in TransformIds : TransformDoWork(t)
    \/ \E t \in TransformIds : TransformPollTimeout(t)
    \/ PassthroughDoWork
    \/ PassthroughPollTimeout
    \/ \E t \in TransformIds \cup {"PASSTHROUGH"} : MergeDoWork(t)
    \/ MergePollTimeout

SpecMerge == Init /\ [][NextMerge]_vars

(* ------------------------- ComponentHost.loop ------------------------- *)
\* is_timed_out() that only looks at the registry being empty
is_timed_out_empty_only(comps, reg, cur_time) == comps = {}

\* ComponentHost.is_timed_out
is_timed_out(comps, reg, cur_time) ==
    IF comps = {} THEN TRUE
    ELSE \E source \in DOMAIN reg : cur_time - reg[source] > Timeout

\* the restriction of a dict to its keys other than k (del d[k])
Del(d, k) == [x \in (DOMAIN d) \ {k} |-> d[x]]

\* the sync frames: msg.split(':') of "<id>:<status>", and frames that do
\* not split into two parts
SyncIds == {"FEED", "MERGE", "PASSTHROUGH", SourceNames[1]}
WellFormed == {<<id, status>> : id \in SyncIds, status \in {"HEARTBEAT", "DONE"}}
Malformed == {<<"FEED">>, <<SourceNames[1], "x", "HEARTBEAT">>}

\* loop() whose heartbeat branch stamps every entry of sync_register
loop_body_stamp_all(parts) ==
    IF Len(parts) # 2
    THEN [components |-> components, sync_register |-> sync_register,
          acked |-> FALSE, raised |-> FALSE]
    ELSE IF parts[2] = "DONE"
    THEN IF parts[1] \in components /\ parts[1] \in DOMAIN sync_register
         THEN [components |-> components \ {parts[1]},
               sync_register |-> [x \in (DOMAIN sync_register) \ {parts[1]} |->
                                     sync_register[x]],
               acked |-> TRUE, raised |-> FALSE]
         ELSE [components |-> components \ {parts[1]},
               sync_register |-> sync_register,
               acked |-> FALSE, raised |-> TRUE]
    ELSE [components |-> components,
          sync_register |-> [x \in (DOMAIN sync_register) \cup {parts[1]} |-> now],
          acked |-> TRUE, raised |-> FALSE]

\* the body of the while loop of loop() once recv() returned msg (its
\* parts): the registry, whether 'ack' was sent, whether an exception left
\* the loop
loop_body(parts) ==
    IF Len(parts) # 2
    THEN [components |-> components, sync_register |-> sync_register,
          acked |-> FALSE, raised |-> FALSE]
    ELSE IF parts[2] = "DONE"
    THEN IF parts[1] \in components /\ parts[1] \in DOMAIN sync_register
         THEN [components |-> components \ {parts[1]},
               sync_register |-> Del(sync_register, parts[1]),
               acked |-> TRUE, raised |-> FALSE]
         ELSE \* KeyError: del components[id] or del sync_register[id]
              [components |-> components \ {parts[1]},
               sync_register |-> sync_register,
               acked |-> FALSE, raised |-> TRUE]
    ELSE [components |-> components,
          sync_register |-> (parts[1] :> now) @@ sync_register,
          acked |-> TRUE, raised |-> FALSE]

\* the while condition of loop(), evaluated after an iteration that left
\* the registry as comps, reg: the loop ends or polls again
LoopTop(comps, reg, awaiting) ==
    [pc |-> IF is_timed_out(comps, reg, now) THEN "exited" ELSE "loop",
     poll_start |-> now, awaiting_reply |-> awaiting]

\* run(): the loop starts after open()
StartLoop ==
    /\ launched
    /\ host.pc = "init"
    /\ host' = LoopTop(components, sync_register, FALSE)
    /\ UNCHANGED <<now, launched, components, sync_register, feed, sources,
                   merge, transforms, merge_pull, acked>>

\* one iteration of loop() whose poll returns a frame; a REP socket that
\* still owes a reply is not readable
HostFrame(parts) ==
    /\ host.pc = "loop"
    /\ ~host.awaiting_reply
    /\ LET r == loop_body(parts)
       IN /\ components' = r.components
          /\ sync_register' = r.sync_register
          /\ host' = IF r.raised
                     THEN [host EXCEPT !.pc = "raised", !.awaiting_reply = TRUE]
                     ELSE LoopTop(r.components, r.sync_register, ~r.acked)
          /\ acked' = IF r.acked /\ parts[2] = "DONE"
                      THEN acked \cup {parts[1]} ELSE acked
    /\ UNCHANGED <<now, launched, feed, sources, merge, transforms, merge_pull>>

\* one iteration of loop() whose poll times out
HostPollTimeout ==
    /\ host.pc = "loop"
    /\ now = host.poll_start + HeartbeatTimeout
    /\ host' = LoopTop(components, sync_register, host.awaiting_reply)
    /\ UNCHANGED <<now, launched, components, sync_register, feed, sources,
                   merge, transforms, merge_pull, acked>>

\* a second passes; a poll lasts no longer than heartbeat_timeout
Tick ==
    /\ now < MaxTime
    /\ host.pc \in {"init", "loop"}
    /\ host.pc = "loop" => now < host.poll_start + HeartbeatTimeout
    /\ now' = now + 1
    /\ UNCHANGED <<launched, components, sync_register, feed, sources, host,
                   merge, transforms, merge_pull, acked>>

NextHost ==
    \/ RegisterSource(SourceNames[1])
    \/ Open
    \/ StartLoop
    \/ \E parts \in WellFormed \cup Malformed : HostFrame(parts)
    \/ HostPollTimeout
    \/ Tick

SpecHost == Init /\ [][NextHost]_vars

(* ------------------------ the components at work ---------------------- *)
\* the components open() launches
Workers == {"FEED", "MERGE"} \cup Registered \cup DOMAIN feed.data_buffer

\* the component has called signal_done()
Done(c) ==
    IF c = "FEED" THEN feed.done
    ELSE IF c = "MERGE" THEN merge.done
    ELSE IF c \in DOMAIN transforms THEN transforms[c].done
    ELSE sources[c].done

\* an exception has ended the component's loop
Raised(c) ==
    IF c = "FEED" THEN feed.error # "none"
    ELSE IF c = "MERGE" THEN merge.error # "none"
    ELSE IF c \in DOMAIN transforms THEN transforms[c].error # "none"
    ELSE FALSE

Alive(c) == launched /\ c \in Workers /\ ~Done(c) /\ ~Raised(c)

\* Component: the heartbeat of a running component, sent every
\* heartbeat_timeout, received and answered by loop()
WorkerHeartbeat(c) ==
    /\ Alive(c)
    /\ c \in DOMAIN sync_register
    /\ now = sync_register[c] + HeartbeatTimeout
    /\ HostFrame(<<c, "HEARTBEAT">>)

\* Component.signal_done: the "<id>:DONE" frame, received and answered by
\* loop()
WorkerDone(c) ==
    /\ launched
    /\ c \in Workers
    /\ Done(c)
    /\ c \notin acked
    /\ HostFrame(<<c, "DONE">>)

\* PassthroughTransform.do_work, its poll timing out after heartbeat_timeout
PassthroughPollTimeoutAt ==
    /\ now >= transforms["PASSTHROUGH"].poll_start + HeartbeatTimeout
    /\ PassthroughPollTimeout

\* a second passes while the host polls: no component has a message to
\* read, a heartbeat due or a DONE frame to report, and no poll is older
\* than heartbeat_timeout
PipeTick ==
    /\ host.pc = "loop"
    /\ \A c \in Workers :
          /\ (Alive(c) /\ c \in DOMAIN sync_register)
                => now < sync_register[c] + HeartbeatTimeout
          /\ ~(Done(c) /\ c \notin acked)
    /\ \A t \in Registered : Alive(t) => ~FeedReadable(t)
    /\ Alive("PASSTHROUGH")
          => now < transforms["PASSTHROUGH"].poll_start + HeartbeatTimeout
    /\ Alive("MERGE") => \A t \in DOMAIN merge_pull : merge_pull[t] = <<>>
    /\ Tick

NextPipe ==
    \/ RegisterSource(SourceNames[1])
    \/ \E t \in TransformIds : RegisterTransform(t)
    \/ Open
    \/ StartLoop
    \/ FeedDoWork(SourceNames[1])
    \/ FeedPollTimeout
    \/ \E t \in TransformIds : TransformDoWork(t)
    \/ \E t \in TransformIds : TransformPollTimeout(t)
    \/ PassthroughDoWork
    \/ PassthroughPollTimeoutAt
    \/ \E t \in TransformIds \cup {"PASSTHROUGH"} : MergeDoWork(t)
    \/ MergePollTimeout
    \/ \E c \in SyncIds \cup TransformIds : WorkerHeartbeat(c)
    \/ \E c \in SyncIds \cup TransformIds : WorkerDone(c)
    \/ HostPollTimeout
    \/ PipeTick

SpecPipe == Init /\ [][NextPipe]_vars

(* --------------------------- Feed properties -------------------------- *)
\* the events the Feed has published, in order
FeedPublished ==
    SelectSeq(feed.socket, LAMBDA m : m.kind = "FEED")

PublishedSources ==
    {FeedPublished[i].payload.source_id : i \in 1..Len(FeedPublished)}

RECURSIVE TotalSent(_)
TotalSent(keys) ==
    IF keys = {} THEN 0
    ELSE LET k == CHOOSE x \in keys : TRUE
         IN sources[k].sent + TotalSent(keys \ {k})

\* C1: every two consecutive events the Feed publishes are in non-decreasing
\* dt order, whatever the interleaving of the sources' messages.
C1_FeedChronological ==
    \A i \in 1..(Len(FeedPublished) - 1) :
        FeedPublished[i].payload.dt <= FeedPublished[i + 1].payload.dt

\* the Feed has published three events of two sources with different dts
C1_Witness ==
    /\ Len(FeedPublished) >= 3
    /\ Cardinality(PublishedSources) >= 2
    /\ FeedPublished[1].payload.dt < FeedPublished[Len(FeedPublished)].payload.dt

\* C2: when the Feed has signalled DONE it has published every event the
\* sources sent exactly once, DONE is its last frame, and its queues are empty;
\* before that no DONE frame is on its socket.
C2_FeedAllThenDone ==
    /\ \A i \in 1..Len(feed.socket) :
          feed.socket[i] = DONE => (i = Len(feed.socket) /\ feed.done)
    /\ feed.done =>
          /\ feed.socket[Len(feed.socket)] = DONE
          /\ feed.sent_count = TotalSent(DOMAIN feed.data_buffer)
          /\ Len(FeedPublished) = feed.sent_count
          /\ Cardinality({FeedPublished[i].payload :
                             i \in 1..Len(FeedPublished)}) = feed.sent_count
          /\ pending_messages(feed) = 0

\* the Feed is done after a drain that had at least two events to publish
C2_Witness ==
    /\ feed.done
    /\ feed.sent_count >= 2
    /\ \E s \in DOMAIN feed.data_buffer : sources[s].sent = 0

C5_EveryFrameAcked == ~host.awaiting_reply

\* C6: the key sets of components and sync_register are equal.
C6_SameKeys == components = DOMAIN sync_register

\* C7: when loop() has ended by its while condition, the registry is empty
\* or a component that is still registered has timed out.
C7_StopsForRegisteredOnly ==
    host.pc = "exited" =>
        \/ components = {}
        \/ \E c \in components \cap DOMAIN sync_register :
              now - sync_register[c] > Timeout

\* C8: while loop() runs, nobody had timed out at its last check and its
\* poll is no older than heartbeat_timeout, so no last_seen is older than
\* timeout plus one poll interval; and when it ends, is_timed_out() is true.
C8_TimeoutWithinOnePoll ==
    /\ host.pc = "loop" =>
          /\ now - host.poll_start <= HeartbeatTimeout
          /\ \A c \in DOMAIN sync_register :
                /\ host.poll_start - sync_register[c] <= Timeout
                /\ now - sync_register[c] <= Timeout + HeartbeatTimeout
    /\ host.pc = "exited" =>
          (components = {} \/
           \E c \in DOMAIN sync_register : now - sync_register[c] > Timeout)

\* the loop has ended on a registered component that never pinged, while
\* another component's heartbeats were still being received
C8_Witness ==
    /\ host.pc = "exited"
    /\ \E c \in components :
          /\ sync_register[c] = 0
          /\ now - sync_register[c] > Timeout
    /\ \E d \in components : now - sync_register[d] <= 1

(* -------------------------- Merge properties -------------------------- *)
\* the PASSTHROUGH results the Merge has received
PassthroughReceived ==
    transforms["PASSTHROUGH"].sent -
    Len(SelectSeq(merge_pull["PASSTHROUGH"], LAMBDA m : m # DONE))

MergePublished ==
    SelectSeq(merge.socket, LAMBDA m : m.kind = "MERGE")

\* C4: the Merge has published one record per PASSTHROUGH element it has
\* consumed (received and no longer queued), and when it has signalled DONE
\* it has published as many records as it received PASSTHROUGH results.
C4_OneRecordPerPassthrough ==
    /\ Len(MergePublished) = merge.sent_count
    /\ merge.sent_count + Len(merge.data_buffer["PASSTHROUGH"])
          = PassthroughReceived
    /\ merge.done => merge.sent_count = PassthroughReceived

\* the Merge is done after publishing two records with a user transform
C4_Witness ==
    /\ merge.done
    /\ merge.sent_count >= 2
    /\ Cardinality(DOMAIN merge.data_buffer) >= 2

(* ------------------------- Pipeline properties ------------------------ *)
\* C9: when loop() has ended in a run with at least one source, the
\* registry is empty and every component's DONE frame has been acknowledged
\* (the loop ended on the empty registry, not on a timeout).
C9_AllDoneThenExit ==
    (host.pc = "exited" /\ DOMAIN feed.data_buffer # {}) =>
        /\ components = {}
        /\ \A c \in Workers : c \in acked

\* C10: when loop() has ended in a run with no user components, the
\* registry is empty and FEED, MERGE and PASSTHROUGH have signalled DONE.
C10_EmptyRunExitsCleanly ==
    (host.pc = "exited" /\ Workers = {"FEED", "MERGE", "PASSTHROUGH"}) =>
        /\ components = {}
        /\ feed.done /\ merge.done /\ transforms["PASSTHROUGH"].done

(* ---------------------- sync frames, one at a time -------------------- *)
\* C11: an iteration of loop() that receives "<id>:DONE" for an id that is
\* not in the registry leaves components and sync_register unchanged,
\* answers 'ack' and returns to the while condition of the loop.
C11_PrematureDoneIgnored ==
    [][\A parts \in WellFormed :
          (HostFrame(parts) /\ parts[2] = "DONE" /\ parts[1] \notin components)
             => /\ UNCHANGED <<components, sync_register>>
                /\ ~host'.awaiting_reply
                /\ host'.pc \in {"loop", "exited"}]_vars

(* ----------------------------- registration --------------------------- *)
\* C12: register_components of a component whose id is already in the
\* registry changes nothing: components, sync_register and the buffers of
\* the Feed and the Merge (key sets and queued events) stay as they were.
C12_DuplicateIdRejected ==
    [][/\ \A s \in SourceIds :
             (RegisterSource(s) /\ s \in components)
                => UNCHANGED <<components, sync_register, feed, merge>>
       /\ \A t \in TransformIds :
             (RegisterTransform(t) /\ t \in components)
                => UNCHANGED <<components, sync_register, feed, merge>>]_vars

(* ------------------------ a source repeating DONE --------------------- *)
\* one do_work step of the Feed whose poll returns a second DONE of a
\* source that has already sent DONE; the DONE message names no source
FeedDoWorkDoneAgain(s) ==
    /\ launched
    /\ ~feed.done
    /\ s \in DOMAIN feed.data_buffer
    /\ sources[s].done
    /\ feed' = do_work(feed, DONE)
    /\ UNCHANGED <<now, launched, components, sync_register, sources, host,
                   merge, transforms, merge_pull, acked>>

NextFeedDoneAgain ==
    \/ \E s \in {SourceNames[1], SourceNames[2]} : RegisterSource(s)
    \/ Open
    \/ \E s \in {SourceNames[1], SourceNames[2]} : FeedDoWork(s)
    \/ FeedPollTimeout
    \/ \E s \in {SourceNames[1], SourceNames[2]} : FeedDoWorkDoneAgain(s)

SpecFeedDoneAgain == Init /\ [][NextFeedDoneAgain]_vars

\* the registered sources that have sent DONE
FinishedSources == {s \in DOMAIN feed.data_buffer : sources[s].done}

\* C13: the Feed counts each source's DONE once, however often the source
\* sends it, and is in drain mode or has signalled DONE only when every
\* registered source has sent DONE.
C13_DoneLatchedPerSource ==
    /\ feed.ds_finished_counter <= Cardinality(FinishedSources)
    /\ (feed.draining \/ feed.done) => FinishedSources = DOMAIN feed.data_buffer

(* ------------------------- PassthroughTransform ----------------------- *)
\* the TRANSFORM messages among the frames in flight from t to the Merge
ResultsInFlight(pull, t) ==
    SelectSeq(pull[t], LAMBDA m : m.kind = "TRANSFORM")

\* C14: no do_work step of the PassthroughTransform raises an error; a step
\* that reads a feed message other than DONE sends exactly one TRANSFORM
\* message named PASSTHROUGH whose value is that message; any other step
\* (poll timeout, DONE) sends no TRANSFORM message.
C14_PassthroughOnePerMessage ==
    [][/\ transforms'["PASSTHROUGH"].error = "none"
       /\ IF /\ transforms'["PASSTHROUGH"].pos = transforms["PASSTHROUGH"].pos + 1
             /\ FeedMessage("PASSTHROUGH") # DONE
          THEN merge_pull'["PASSTHROUGH"] =
                  Append(merge_pull["PASSTHROUGH"],
                         TRANSFORM_FRAME("PASSTHROUGH", FeedMessage("PASSTHROUGH")))
          ELSE Len(ResultsInFlight(merge_pull', "PASSTHROUGH"))
                  <= Len(ResultsInFlight(merge_pull, "PASSTHROUGH"))]_vars

(* ----------------------- more Feed properties ------------------------- *)
\* C15: while some source has not sent DONE, is_full() of the Feed is true
\* exactly when every registered source that has not sent DONE has an event
\* buffered; a source that has sent DONE and whose queue is empty does not
\* count.
C15_FullOverUnfinishedSources ==
    (\E u \in DOMAIN feed.data_buffer : ~sources[u].done) =>
        (is_full(feed) <=>
            \A s \in DOMAIN feed.data_buffer :
                ~sources[s].done => Len(feed.data_buffer[s]) > 0)

\* C16: two events of one source are published in the order the source
\* sent them (seq is the source's own numbering), also when their dts are
\* equal and whether they were published while running or while draining.
C16_PerSourceFifo ==
    \A i, j \in 1..Len(FeedPublished) :
        (i < j /\ FeedPublished[i].payload.source_id
                     = FeedPublished[j].payload.source_id)
            => FeedPublished[i].payload.seq < FeedPublished[j].payload.seq

\* the Feed is done having published four events of two sources, two of
\* them events of one source with equal dt
C16_Witness ==
    /\ feed.done
    /\ Len(FeedPublished) = 4
    /\ \E i, j \in 1..Len(FeedPublished) :
          /\ i < j
          /\ FeedPublished[i].payload.source_id = FeedPublished[j].payload.source_id
          /\ FeedPublished[i].payload.dt = FeedPublished[j].payload.dt
    /\ Cardinality(PublishedSources) >= 2

(* ------------------------ frame effect of loop() ---------------------- *)
\* the entries of id c are the same in the registry as in the registry r
\* that an iteration of loop() leaves
SameEntries(c, r) ==
    /\ (c \in r.components) = (c \in components)
    /\ (c \in DOMAIN r.sync_register) = (c \in DOMAIN sync_register)
    /\ c \in DOMAIN sync_register => r.sync_register[c] = sync_register[c]

\* C17: whenever loop() is ready to receive, the iteration that processes
\* any one frame changes no entry of an id other than the one the frame
\* names; HEARTBEAT from a registered id leaves components and the keys of
\* sync_register as they are, DONE from a registered id removes that id
\* from both, and a malformed frame changes neither mapping.
C17_FrameTouchesOnlyItsId ==
    (host.pc = "loop" /\ ~host.awaiting_reply) =>
        \A parts \in WellFormed \cup Malformed :
            LET r == loop_body(parts)
            IN IF Len(parts) # 2
               THEN r.components = components /\ r.sync_register = sync_register
               ELSE /\ \A c \in (components \cup DOMAIN sync_register) \ {parts[1]} :
                          SameEntries(c, r)
                    /\ (r.components \cup DOMAIN r.sync_register)
                          \subseteq (components \cup DOMAIN sync_register
                                        \cup {parts[1]})
                    /\ (parts[2] = "HEARTBEAT" /\ parts[1] \in components)
                          => /\ r.components = components
                             /\ DOMAIN r.sync_register = DOMAIN sync_register
                    /\ (parts[2] = "DONE" /\ parts[1] \in components)
                          => /\ r.components = components \ {parts[1]}
                             /\ DOMAIN r.sync_register =
                                   (DOMAIN sync_register) \ {parts[1]}

\* the loop is running after a DONE frame unregistered one component and a
\* heartbeat refreshed another, a third one still having its first stamp
C17_Witness ==
    /\ host.pc = "loop"
    /\ \E x \in acked : x \notin components /\ x \notin DOMAIN sync_register
    /\ \E c, d \in components :
          /\ sync_register[c] > 0
          /\ sync_register[d] = 0

(* ----------------------- more Merge properties ------------------------ *)
\* C18: next() of the Merge has never popped an empty PASSTHROUGH queue,
\* and the k-th record the Merge has published has the k-th message of the
\* feed as its base (the k-th PASSTHROUGH element) and carries, for every
\* registered user transform, that transform's result for the k-th event.
C18_RecordsAligned ==
    /\ merge.error = "none"
    /\ Len(MergePublished) <= Len(FeedPublished)
    /\ \A k \in 1..Len(MergePublished) :
          /\ MergePublished[k].payload.base = FeedPublished[k]
          /\ MergePublished[k].payload.merged =
                {transform(t, FEED_UNFRAME(FeedPublished[k])) :
                    t \in Registered \ {"PASSTHROUGH"}}

\* the Merge has published its second record; the second PASSTHROUGH
\* element was queued before the user transform's first result arrived
C18_Witness ==
    /\ Len(MergePublished) >= 2
    /\ Registered \ {"PASSTHROUGH"} # {}
    /\ merge.received_count >= 4
    /\ MergePublished[1].payload.base # MergePublished[2].payload.base

(* ------------------------- the Feed's counters ------------------------ *)
\* C19: between do_work steps the Feed has received as many events as it
\* has sent plus those it holds, and a do_work step that receives an event
\* outside drain mode sends at most one event.
C19_CountersBalance ==
    /\ [](feed.received_count = feed.sent_count + pending_messages(feed))
    /\ [][(feed'.received_count = feed.received_count + 1 /\ ~feed'.draining)
             => feed'.sent_count <= feed.sent_count + 1]_vars

\* after a do_work step that sent one event the running Feed still holds an
\* event of every source: events that are safe to emit stay buffered
C19_Witness ==
    /\ ~feed.draining
    /\ feed.sent_count >= 1
    /\ Cardinality(DOMAIN feed.data_buffer) >= 2
    /\ is_full(feed)

(* ------------------------- ties on the timestamp ---------------------- *)
\* the place of source s in the iteration order of the Feed's source map
IterationIndex(s) == CHOOSE i \in 1..Len(feed.order) : feed.order[i] = s

\* the sources whose queue head has the smallest dt of all queue heads
TiedSources ==
    LET nonempty == {s \in DOMAIN feed.data_buffer :
                        Len(feed.data_buffer[s]) > 0}
    IN {s \in nonempty :
           \A u \in nonempty :
               feed.data_buffer[s][1].dt <= feed.data_buffer[u][1].dt}

\* C20: for the buffer of every reachable state that holds an event, next()
\* (past the guard of its first line) pops the head of a queue whose head
\* has the smallest dt, and among several such queues the one that comes
\* last in the iteration order of the source map, whatever the order in
\* which the events arrived.
C20_TieByIterationOrder ==
    pending_messages(feed) > 0 =>
        LET r == next([feed EXCEPT !.draining = TRUE])
        IN /\ r.found
           /\ r.event.source_id \in TiedSources
           /\ r.event = Head(feed.data_buffer[r.event.source_id])
           /\ \A u \in TiedSources :
                 IterationIndex(u) <= IterationIndex(r.event.source_id)

\* the running Feed has published, as its first two events, an event of
\* the source that is last in the iteration order and then an event with
\* the same dt of the source that is first
C20_Witness ==
    /\ ~feed.draining
    /\ Len(feed.order) >= 2
    /\ Len(FeedPublished) >= 2
    /\ FeedPublished[1].payload.dt = FeedPublished[2].payload.dt
    /\ FeedPublished[1].payload.source_id = feed.order[Len(feed.order)]
    /\ FeedPublished[2].payload.source_id = feed.order[1]

====
